---- MODULE Spec2Model ----
(***************************************************************************)
(* Model of the nanakshahi crate (src/src/lib.rs): the two conversions    *)
(* `to` (Gregorian -> Nanakshahi) and `from` (Nanakshahi -> Gregorian),   *)
(* the helper `days_between`, the static tables, and the chrono date      *)
(* primitives they call.  Integer widths (u8, u16) are kept; an           *)
(* arithmetic overflow panics when the build has overflow checks (the     *)
(* debug/test profile) and wraps when it has not (the release profile).   *)
(***************************************************************************)
EXTENDS Integers, Sequences, FiniteSets, TLC

(* ------------------------------ bounds -------------------------------- *)
\* Years drawn on each side of the years the crate's tests use.
YearSpan == 4
\* Months are drawn from 0..MaxMonth and the u8 maximum.
MaxMonth == 14
\* Days are drawn from 0..MaxDay and the u8 maximum.
MaxDay == 32

(* ------------------------ constants of the crate ---------------------- *)
EPOCH_BEFORE_MID_MARCH == 1469
EPOCH_ON_OR_AFTER_MID_MARCH == 1468
NANAKSHAHI_DAYS_IN_MONTHS == <<31, 31, 31, 31, 31, 30, 30, 30, 30, 30, 30, 30>>
NANAKSHAHI_MONTH_NAMES ==
    <<"Chet", "Vaisakh", "Jeth", "Harh", "Sawan", "Bhadon", "Assu", "Kattak",
      "Maghar", "Poh", "Magh", "Phaggan">>
GREGORIAN_MONTH_NAMES ==
    <<"January", "February", "March", "April", "May", "June", "July",
      "August", "September", "October", "November", "December">>

\* Widths of the integer types of the signatures and of struct Date.
U16 == 65536
U8 == 256
\* The years the crate's tests convert.
TestGregorianYear == 2025
TestNanakshahiYear == 556

(* ----------------------------- outcomes ------------------------------- *)
\* A call either returns a Date or panics with a message.
Date(y, m, d) == [kind |-> "ok", year |-> y, month |-> m, day |-> d, msg |-> ""]
Panic(m) == [kind |-> "panic", year |-> 0, month |-> "", day |-> 0, msg |-> m]
NoCall == [kind |-> "none", year |-> 0, month |-> "", day |-> 0, msg |-> ""]

MsgInvalidDate == "Invalid date"
MsgSubOverflow == "attempt to subtract with overflow"
MsgIndex == "index out of bounds: the len is 12 but the index is 12"
MsgOffset == "Offset exceeded the total number of days in the Nanakshahi year"

(* ------------------- chrono: proleptic Gregorian dates ---------------- *)
IsLeap(y) == (y % 4 = 0 /\ y % 100 # 0) \/ y % 400 = 0

DaysInMonth(y, m) ==
    IF m = 2 THEN (IF IsLeap(y) THEN 29 ELSE 28)
    ELSE IF m \in {4, 6, 9, 11} THEN 30 ELSE 31

\* NaiveDate::from_ymd_opt(y, m, d).is_some()
ValidYmd(y, m, d) == m \in 1..12 /\ d >= 1 /\ d <= DaysInMonth(y, m)

\* Number of leap years in 0 .. y-1.
LeapsBefore(y) == ((y - 1) \div 4) - ((y - 1) \div 100) + ((y - 1) \div 400) + 1

RECURSIVE DaysBeforeMonth(_, _)
DaysBeforeMonth(y, m) ==
    IF m <= 1 THEN 0 ELSE DaysBeforeMonth(y, m - 1) + DaysInMonth(y, m - 1)

\* Days from January 1 of year 0 to the date (the value NaiveDate differences
\* are taken over).
DayNumber(y, m, d) == 365 * y + LeapsBefore(y) + DaysBeforeMonth(y, m) + (d - 1)

\* NaiveDate + Duration::days(k): the date whose day number is k more.  The
\* year is searched around the starting year; the callers add between -1 and
\* 365 + 254 days.
AddDays(y, m, d, k) ==
    LET n == DayNumber(y, m, d) + k
        ry == CHOOSE c \in (y - 1) .. (y + 2) :
                  DayNumber(c, 1, 1) <= n /\ n < DayNumber(c + 1, 1, 1)
        doy == n - DayNumber(ry, 1, 1)
        rm == CHOOSE c \in 1..12 :
                  DaysBeforeMonth(ry, c) <= doy
                  /\ doy < DaysBeforeMonth(ry, c) + DaysInMonth(ry, c)
    IN  <<ry, rm, doy - DaysBeforeMonth(ry, rm) + 1>>

(* ------------------------- integer arithmetic ------------------------- *)
\* a - b on an unsigned type of modulus w: panics on underflow when the build
\* has overflow checks (oc), wraps otherwise.
SubUnsigned(oc, w, a, b) ==
    IF a >= b THEN [kind |-> "ok", val |-> a - b]
    ELSE IF oc THEN [kind |-> "panic", val |-> 0]
    ELSE [kind |-> "ok", val |-> (a - b) % w]

\* (month, day) >= (3, 14): the condition of lines 71 and 95.
OnOrAfterMidMarch(month, day) == month > 3 \/ (month = 3 /\ day >= 14)

\* 1-based position of a month name in one of the two tables.
MonthIndex(names, name) == CHOOSE i \in 1..12 : names[i] = name

(* ------------------------------- from --------------------------------- *)
\* Sum of the first n entries of the month-length table (lines 43-45).
RECURSIVE SumDays(_)
SumDays(n) == IF n = 0 THEN 0 ELSE SumDays(n - 1) + NANAKSHAHI_DAYS_IN_MONTHS[n]

\* from(year, month, day), lines 41-58.
from(oc, year, month, day) ==
    LET count == SubUnsigned(oc, U8, month, 1)
    IN  IF count.kind = "panic" THEN Panic(MsgSubOverflow)
        ELSE IF count.val > 12 THEN Panic(MsgIndex)
        ELSE LET offset == SumDays(count.val) + (day - 1)
                 date == AddDays(year + EPOCH_ON_OR_AFTER_MID_MARCH, 3, 14, offset)
             IN  Date(date[1] % U16, GREGORIAN_MONTH_NAMES[date[2]], date[3] % U8)

(* --------------------------- days_between ----------------------------- *)
\* days_between taking the difference without the expect of line 101.
days_between_unvalidated(oc, year, month, day) ==
    LET offset == IF OnOrAfterMidMarch(month, day) THEN 0 ELSE 1
        ref == SubUnsigned(oc, U16, year, offset)
    IN  IF ref.kind = "panic" THEN Panic(MsgSubOverflow)
        ELSE [kind |-> "ok",
              days |-> DayNumber(year, month, day) - DayNumber(ref.val, 3, 14)]

\* days_between(year, month, day), lines 94-105.
days_between(oc, year, month, day) ==
    LET offset == IF OnOrAfterMidMarch(month, day) THEN 0 ELSE 1
        ref == SubUnsigned(oc, U16, year, offset)
    IN  IF ~ValidYmd(year, month, day) THEN Panic(MsgInvalidDate)
        ELSE IF ref.kind = "panic" THEN Panic(MsgSubOverflow)
        ELSE [kind |-> "ok",
              days |-> DayNumber(year, month, day) - DayNumber(ref.val, 3, 14)]

(* -------------------------------- to ---------------------------------- *)
\* The loop of lines 78-88 from table index `index` (0-based) on, and the
\* panic of line 91 when the table is exhausted.
RECURSIVE MonthWalk(_, _, _, _, _)
MonthWalk(oc, year, epoch, offset, index) ==
    IF index = 12 THEN Panic(MsgOffset)
    ELSE LET days == NANAKSHAHI_DAYS_IN_MONTHS[index + 1]
         IN  IF offset < days
             THEN LET ny == SubUnsigned(oc, U16, year, epoch)
                  IN  IF ny.kind = "panic" THEN Panic(MsgSubOverflow)
                      ELSE Date(ny.val, NANAKSHAHI_MONTH_NAMES[index + 1],
                                (offset + 1) % U8)
             ELSE MonthWalk(oc, year, epoch, offset - days, index + 1)

\* to(year, month, day), lines 70-92.
to(oc, year, month, day) ==
    LET epoch == IF OnOrAfterMidMarch(month, day)
                 THEN EPOCH_ON_OR_AFTER_MID_MARCH ELSE EPOCH_BEFORE_MID_MARCH
        between == days_between(oc, year, month, day)
    IN  IF between.kind = "panic" THEN between
        ELSE MonthWalk(oc, year, epoch, between.days, 0)

(* --------------------------- the state machine ------------------------ *)
VARIABLES
    overflow_checks,  \* the build profile: TRUE debug/test, FALSE release
    pc,               \* which calls have been made
    arg,              \* <<year, month, day>> passed to the first call
    out,              \* outcome of the latest call on arg
    prev,             \* outcome of to on the day before arg (after NextDay)
    back              \* outcome of the return conversion of a round trip

vars == <<overflow_checks, pc, arg, out, prev, back>>

TestYears == (TestGregorianYear - YearSpan) .. (TestGregorianYear + YearSpan)
TestNanakshahiYears ==
    (TestNanakshahiYear - YearSpan) .. (TestNanakshahiYear + YearSpan)
EdgeYears == {0, 1, 1467, 1468, 1469, 1470, 1900, 2000, 2100,
              U16 - 1470, U16 - 1469, U16 - 1468, U16 - 2, U16 - 1}
Years ==
    EdgeYears
    \cup TestYears
    \cup TestNanakshahiYears
Months == (0 .. MaxMonth) \cup {U8 - 1}
Days == (0 .. MaxDay) \cup {U8 - 1}

Init ==
    /\ overflow_checks \in BOOLEAN
    /\ pc = "idle"
    /\ arg \in Years \X Months \X Days
    /\ out = NoCall
    /\ prev = NoCall
    /\ back = NoCall

\* to(arg)
CallTo ==
    /\ pc = "idle"
    /\ out' = to(overflow_checks, arg[1], arg[2], arg[3])
    /\ pc' = "to"
    /\ UNCHANGED <<overflow_checks, arg, prev, back>>

\* from(arg)
CallFrom ==
    /\ pc = "idle"
    /\ out' = from(overflow_checks, arg[1], arg[2], arg[3])
    /\ pc' = "from"
    /\ UNCHANGED <<overflow_checks, arg, prev, back>>

\* from(to(arg)): the Nanakshahi month name is mapped to its table position.
ToThenFrom ==
    /\ pc = "to"
    /\ out.kind = "ok"
    /\ back' = from(overflow_checks, out.year,
                    MonthIndex(NANAKSHAHI_MONTH_NAMES, out.month), out.day)
    /\ pc' = "to_from"
    /\ UNCHANGED <<overflow_checks, arg, out, prev>>

\* to(from(arg)): the Gregorian month name is mapped to its month number.
FromThenTo ==
    /\ pc = "from"
    /\ out.kind = "ok"
    /\ back' = to(overflow_checks, out.year,
                  MonthIndex(GREGORIAN_MONTH_NAMES, out.month), out.day)
    /\ pc' = "from_to"
    /\ UNCHANGED <<overflow_checks, arg, out, prev>>

\* The calendar successor of a valid Gregorian date.
Succ(y, m, d) ==
    IF d < DaysInMonth(y, m) THEN <<y, m, d + 1>>
    ELSE IF m < 12 THEN <<y, m + 1, 1>>
    ELSE <<y + 1, 1, 1>>

\* to on the day after arg, keeping the outcome for arg in prev.
NextDay ==
    /\ pc = "to"
    /\ ValidYmd(arg[1], arg[2], arg[3])
    /\ Succ(arg[1], arg[2], arg[3])[1] < U16
    /\ arg' = Succ(arg[1], arg[2], arg[3])
    /\ prev' = out
    /\ out' = to(overflow_checks, arg'[1], arg'[2], arg'[3])
    /\ pc' = "to_next"
    /\ UNCHANGED <<overflow_checks, back>>

Next == CallTo \/ CallFrom \/ ToThenFrom \/ FromThenTo \/ NextDay

Spec == Init /\ [][Next]_vars

\* The test profile only: overflow checks on, as the crate's tests run.
InitTestProfile == Init /\ overflow_checks = TRUE
SpecTestProfile == InitTestProfile /\ [][Next]_vars

\* Gregorian years around the year of the crate's tests only: no u16
\* subtraction can underflow there, in either profile.
InitTestYears == Init /\ arg[1] \in TestYears
SpecTestYears == InitTestYears /\ [][Next]_vars

\* Nanakshahi years around the year of the crate's tests only: their
\* Gregorian images stay far below the u16 maximum.
InitTestNanakshahiYears == Init /\ arg[1] \in TestNanakshahiYears
SpecTestNanakshahiYears == InitTestNanakshahiYears /\ [][Next]_vars

TypeOK ==
    /\ overflow_checks \in BOOLEAN
    /\ pc \in {"idle", "to", "from", "to_from", "from_to", "to_next"}
    /\ arg \in (0 .. (U16 - 1)) \X (0 .. (U8 - 1)) \X (0 .. (U8 - 1))
    /\ out.kind \in {"none", "ok", "panic"}
    /\ out.kind = "ok" => out.year \in 0 .. (U16 - 1) /\ out.day \in 0 .. (U8 - 1)


(* ------------------------------ properties ---------------------------- *)
ValidGregorian(a) == ValidYmd(a[1], a[2], a[3])
ValidNanakshahi(a) == a[2] \in 1..12 /\ a[3] \in 1 .. NANAKSHAHI_DAYS_IN_MONTHS[a[2]]
EpochOf(a) ==
    IF OnOrAfterMidMarch(a[2], a[3])
    THEN EPOCH_ON_OR_AFTER_MID_MARCH ELSE EPOCH_BEFORE_MID_MARCH
OffsetOf(a) == days_between(overflow_checks, a[1], a[2], a[3])

\* C1: for every valid Gregorian date D with a u16 year, to(D) returns a
\* Nanakshahi date and from applied to it (month name mapped to its position)
\* returns D's year and day and the name of D's month.
C1_RoundTripGregorian ==
    (pc \in {"to", "to_from"} /\ ValidGregorian(arg))
        => /\ out.kind = "ok"
           /\ pc = "to_from"
                  => back = Date(arg[1], GREGORIAN_MONTH_NAMES[arg[2]], arg[3])

\* C2: for every valid Nanakshahi date N, from(N) returns a Gregorian date
\* and to applied to it (month name mapped to its number) returns N's year,
\* the name of N's month and N's day.
C2_RoundTripNanakshahi ==
    (pc \in {"from", "from_to"} /\ ValidNanakshahi(arg))
        => /\ out.kind = "ok"
           /\ pc = "from_to"
                  => back = Date(arg[1], NANAKSHAHI_MONTH_NAMES[arg[2]], arg[3])

\* C3: for any Gregorian year Y, leap or not, to(Y, 3, 13) returns Phaggan 30
\* of Nanakshahi year Y - 1469.
C3_DayBeforeNewYear ==
    (pc = "to" /\ arg[2] = 3 /\ arg[3] = 13)
        => out = Date(arg[1] - EPOCH_BEFORE_MID_MARCH, "Phaggan", 30)

\* C4: for any Gregorian year Y, to(Y, 3, 14) has day offset 0 and returns
\* Chet 1 of Nanakshahi year Y - 1468.
C4_NewYearDay ==
    (pc = "to" /\ arg[2] = 3 /\ arg[3] = 14)
        => /\ OffsetOf(arg) = [kind |-> "ok", days |-> 0]
           /\ out = Date(arg[1] - EPOCH_ON_OR_AFTER_MID_MARCH, "Chet", 1)

\* C5: for any Nanakshahi year Y, from(Y, 12, 30) returns March 13 of
\* Gregorian year Y + 1469, the day before March 14, whether or not that year
\* is a leap year.
C5_LastDayIsMarch13 ==
    (pc = "from" /\ arg[2] = 12 /\ arg[3] = 30)
        => out = Date(arg[1] + EPOCH_BEFORE_MID_MARCH, "March", 13)

\* C6: for every (year, month, day) that is not a valid Gregorian date, to
\* fails with the "Invalid date" panic raised at date construction and never
\* returns a Date, whatever the year subtractions would do.
C6_InvalidGregorianRejected ==
    (pc = "to" /\ ~ValidGregorian(arg)) => out = Panic(MsgInvalidDate)

\* to(2025, 2, 30) has failed.
C6_Witness ==
    /\ pc = "to"
    /\ arg = <<TestGregorianYear, 2, 30>>
    /\ out.kind = "panic"

\* C7: for every month index outside 1..12 and every day outside the month's
\* length, from yields an error outcome and never returns a Gregorian Date.
C7_InvalidNanakshahiRejected ==
    (pc = "from" /\ ~ValidNanakshahi(arg)) => out.kind = "panic"

\* C8: for every valid Gregorian date with any u16 year, to returns the
\* Nanakshahi year equal to the integer year - epoch, and neither u16
\* subtraction underflows, wraps or aborts.
C8_YearMapping ==
    (pc = "to" /\ ValidGregorian(arg))
        => /\ OffsetOf(arg).kind = "ok"
           /\ out.kind = "ok"
           /\ out.year = arg[1] - EpochOf(arg)

\* C9: for every valid Gregorian date D with to(D) = (y, month i, day d),
\* to(D + 1) is (y, i, d + 1) when d is short of the month's length,
\* (y, i + 1, 1) at the end of a month other than Phaggan, and
\* (y + 1, Chet, 1) at the end of Phaggan.
C9_Monotone ==
    (pc = "to_next" /\ prev.kind = "ok")
        => LET i == MonthIndex(NANAKSHAHI_MONTH_NAMES, prev.month)
           IN  out = IF prev.day < NANAKSHAHI_DAYS_IN_MONTHS[i]
                     THEN Date(prev.year, prev.month, prev.day + 1)
                     ELSE IF i < 12
                     THEN Date(prev.year, NANAKSHAHI_MONTH_NAMES[i + 1], 1)
                     ELSE Date(prev.year + 1, "Chet", 1)

\* C10: for every valid Gregorian date days_between returns an offset in
\* 0..364 (0 exactly on March 14), and to returns a day in 1..length of the
\* month it found: the panic of line 91 is unreachable.
C10_OffsetInRange ==
    (pc = "to" /\ ValidGregorian(arg))
        => /\ OffsetOf(arg).kind = "ok"
           /\ OffsetOf(arg).days \in 0..364
           /\ OffsetOf(arg).days = 0 <=> (arg[2] = 3 /\ arg[3] = 14)
           /\ out.kind = "ok"
           /\ out.day \in 1 .. NANAKSHAHI_DAYS_IN_MONTHS[
                                   MonthIndex(NANAKSHAHI_MONTH_NAMES, out.month)]

====
